---- MODULE Spec2Model ----
(***************************************************************************)
(* PDF Chat Assistant (src/app.py): one Streamlit session.                 *)
(*                                                                         *)
(* Streamlit re-executes the script from the top on every user             *)
(* interaction; st.session_state survives the runs.  One action of the     *)
(* model is one script run, triggered by one interaction: a page load, the *)
(* sidebar key input, the "Process PDF" button, the "Clear Chat History"   *)
(* button or the chat input.  The external collaborators (PDF loader,      *)
(* splitter, embedding service, Chroma, language model) are modelled by    *)
(* their results: what they return, or that they raise.                    *)
(***************************************************************************)
EXTENDS Integers, Sequences, FiniteSets, TLC

VARIABLES
    environ,        \* os.environ["OPENAI_API_KEY"], or Unset
    secrets,        \* st.secrets["OPENAI_API_KEY"], or Unset
    text_input,     \* value of the sidebar key widget
    session_state,  \* st.session_state: a function from the keys present
    collection,     \* ./chroma_db, collection "pdf_chat_collection": id -> passage
    tmp_files,      \* temporary files of process_pdf that exist on disk
    last            \* the last script run: trigger, inputs, outcome

vars == <<environ, secrets, text_input, session_state, collection, tmp_files, last>>

---------------------------------------------------------------------------
(* Bounds of the model *)

MaxPages == 1           \* pages of an uploaded PDF
MaxChunksPerPage == 2   \* chunks the splitter cuts from one page
MaxPassages == 2        \* passages the collection may hold
MaxTurns == 2           \* questions between two clears
MaxTmpFiles == 1        \* temporary files left on disk

(* Program constants *)

RetrieverK == 3         \* search_kwargs={"k": 3}

---------------------------------------------------------------------------
(* Values *)

Unset == "<unset>"
NoKey == ""
Keys == {"sk-key"}

None == [kind |-> "None"]
Chroma == [kind |-> "Chroma", collection_name |-> "pdf_chat_collection"]

FileNames == {"a.pdf", "b.pdf"}
Questions == {"about a", "about b"}

PageLayouts == UNION {[1..n -> 0..MaxChunksPerPage] : n \in 0..MaxPages}

RECURSIVE SumSeq(_)
SumSeq(s) == IF s = <<>> THEN 0 ELSE Head(s) + SumSeq(Tail(s))

SessionKeys == {"messages", "vectorstore", "chat_history", "pdf_documents", "memory"}

---------------------------------------------------------------------------
(* API key acquisition, lines 20-43 *)

EnvOrSecret(env, sec) ==
    IF env # Unset THEN env
    ELSE IF sec # Unset THEN sec ELSE NoKey

api_key(env, sec, typed) ==
    IF EnvOrSecret(env, sec) # NoKey THEN EnvOrSecret(env, sec) ELSE typed

(* faulty variant: the st.stop() of line 43 is missing *)
GateNeverStops(env, sec, typed) == TRUE

GatePasses(env, sec, typed) == api_key(env, sec, typed) # NoKey

(* the sidebar input is rendered (line 36) only in a run that found no key *)
(* in the environment or the secrets; Streamlit drops the value of a      *)
(* widget that a run does not render                                      *)
WidgetAfter(env, sec, typed) ==
    IF EnvOrSecret(env, sec) = NoKey THEN typed ELSE NoKey

EnvironAfter(env, sec, typed) ==
    IF EnvOrSecret(env, sec) = NoKey /\ typed # NoKey THEN typed ELSE env

---------------------------------------------------------------------------
(* Session state initialisation, lines 52-62 *)

Default(k) ==
    CASE k = "messages" -> <<>>
      [] k = "vectorstore" -> None
      [] k = "chat_history" -> <<>>
      [] k = "pdf_documents" -> <<>>
      [] k = "memory" -> None

SessionInit(ss) ==
    [k \in SessionKeys |-> IF k \in DOMAIN ss THEN ss[k] ELSE Default(k)]

Initialised(ss) == DOMAIN ss = SessionKeys

Messages(ss) == IF "messages" \in DOMAIN ss THEN ss.messages ELSE <<>>
Vectorstore(ss) == IF "vectorstore" \in DOMAIN ss THEN ss.vectorstore ELSE None
Registry(ss) == IF "pdf_documents" \in DOMAIN ss THEN ss.pdf_documents ELSE <<>>
Memory(ss) == IF "memory" \in DOMAIN ss THEN ss.memory ELSE None

---------------------------------------------------------------------------
(* process_pdf, lines 64-93.  pages[i] is the number of chunks the splitter *)
(* cuts from page i (0 for a page without text); page numbers are 1-based.  *)
(* A passage's text is opaque: page_content names the chunk within its      *)
(* page, and so does the snippet cut from it (line 231).                    *)

RECURSIVE split_documents(_, _, _)
split_documents(file, pages, i) ==
    IF i > Len(pages) THEN <<>>
    ELSE [j \in 1..pages[i] |->
            [page_number |-> i, source_file |-> file, page_content |-> j]]
         \o split_documents(file, pages, i + 1)

process_pdf(file, pages) == split_documents(file, pages, 1)

(* Faults of process_pdf: the write of the uploaded bytes (line 68), the *)
(* loader on an unreadable PDF (line 74) or the splitter (line 87)       *)
(* raises; the exception leaves process_pdf and no chunks are returned   *)
ProcessFaults == {"write", "load", "split"}

(* Temporary files process_pdf leaves behind.  The file is created with   *)
(* delete=False (line 67); the write (line 68) is inside the with block   *)
(* but before the try (line 71) whose finally unlinks the file (90-93).   *)
tmp_left(fault) == IF fault = "write" THEN 1 ELSE 0

---------------------------------------------------------------------------
(* create_vectorstore / add_to_vectorstore, lines 95-115 *)

MaxId(coll) == IF DOMAIN coll = {} THEN 0
               ELSE CHOOSE m \in DOMAIN coll : \A i \in DOMAIN coll : i <= m

(* faulty variant: positional identifiers instead of fresh ones *)
positional_ids(coll, n) == [j \in 1..n |-> j]

(* uuid.uuid4() for each document: n identifiers nobody has used *)
uuid4_ids(coll, n) == [j \in 1..n |-> MaxId(coll) + j]

(* Chroma upsert: a known id is overwritten, a new one is added *)
upsert(coll, ids, documents) ==
    LET new == {ids[j] : j \in DOMAIN ids}
        at(i) == CHOOSE j \in DOMAIN ids : ids[j] = i
    IN [i \in DOMAIN coll \cup new |->
            IF i \in new THEN documents[at(i)] ELSE coll[i]]

(* Chroma.from_documents opens (get-or-create) the persistent collection *)
(* and adds the documents under fresh ids                                *)
create_vectorstore(coll, documents) ==
    upsert(coll, uuid4_ids(coll, Len(documents)), documents)

add_to_vectorstore(coll, documents) ==
    upsert(coll, uuid4_ids(coll, Len(documents)), documents)

---------------------------------------------------------------------------
(* Document registry, lines 167-171 *)

(* faulty variant: one page counted per chunk *)
num_pages_per_chunk(chunks) == Len(chunks)

num_pages(chunks) == Cardinality({chunks[i].page_number : i \in DOMAIN chunks})

num_chunks(chunks) == Len(chunks)

Put(d, k, v) == [x \in DOMAIN d \cup {k} |-> IF x = k THEN v ELSE d[x]]

store_metadata(registry, file, chunks) ==
    Put(registry, file,
        [num_pages |-> num_pages(chunks), num_chunks |-> num_chunks(chunks)])

---------------------------------------------------------------------------
(* Retriever: vectorstore.as_retriever(search_kwargs={"k": 3}), line 132.   *)
(* The embedding distance is abstracted: a passage of the file a query is   *)
(* about is nearer than a passage of another file; ties go to the older id. *)

Topic(query) == IF query = "about a" THEN "a.pdf" ELSE "b.pdf"

Distance(query, passage) == IF passage.source_file = Topic(query) THEN 0 ELSE 1

Nearest(coll, query, ids) ==
    CHOOSE i \in ids : \A j \in ids :
        \/ Distance(query, coll[i]) < Distance(query, coll[j])
        \/ Distance(query, coll[i]) = Distance(query, coll[j]) /\ i <= j

RECURSIVE TopK(_, _, _, _)
TopK(coll, query, ids, k) ==
    IF k = 0 \/ ids = {} THEN <<>>
    ELSE LET n == Nearest(coll, query, ids)
         IN <<coll[n]>> \o TopK(coll, query, ids \ {n}, k - 1)

as_retriever(coll, query) == TopK(coll, query, DOMAIN coll, RetrieverK)

---------------------------------------------------------------------------
(* get_qa_chain, lines 117-138, and the chain call of line 218.            *)
(* ConversationalRetrievalChain: load the memory's chat_history; if it is  *)
(* not empty, ask the model to condense chat_history and question into a   *)
(* standalone question; retrieve with that question; ask the model for the *)
(* answer; then save (question, answer) to the memory.                     *)

ConversationBufferMemory == [kind |-> "ConversationBufferMemory", chat_memory |-> <<>>]

asContext(mem) == IF mem = None THEN <<>> ELSE mem.chat_memory

(* lines 122-127: initialise or reuse the memory *)
get_memory(mem) == IF mem = None THEN ConversationBufferMemory ELSE mem

AskFaults == {"none", "llm_init", "condense", "retrieve", "llm"}

(* rephrased: what the model returns as the standalone question *)
standalone_question(history, question, rephrased) ==
    IF history # <<>> THEN rephrased ELSE question

(* faulty variant: the condensing call is never made *)
llm_calls_single(history, fault) == IF fault = "llm_init" THEN 0 ELSE 1

(* invocations of the language model up to the fault, or to the end *)
llm_calls(history, fault) ==
    CASE fault = "llm_init" -> 0
      [] fault = "condense" -> 1
      [] fault = "retrieve" -> IF history # <<>> THEN 1 ELSE 0
      [] OTHER -> IF history # <<>> THEN 2 ELSE 1

(* the model's answer (temperature 0) to the standalone question *)
Answer(query) == IF query = "about a" THEN "answer a" ELSE "answer b"

(* faulty variant: the turn is put in front of the history *)
save_context_front(mem, question, answer) ==
    [mem EXCEPT !.chat_memory = <<<<question, answer>>>> \o @]

save_context(mem, question, answer) ==
    [mem EXCEPT !.chat_memory = Append(@, <<question, answer>>)]

(* faulty variant: the question is saved before the model is called *)
chain_memory_early(mem, question, answer, fault) ==
    CASE fault = "llm_init" -> mem
      [] fault = "none" -> save_context(get_memory(mem), question, answer)
      [] fault = "llm" -> save_context(get_memory(mem), question, "")
      [] OTHER -> get_memory(mem)

(* the memory after lines 217-218: ChatOpenAI(...) of line 119 raises      *)
(* before the memory is touched; a fault inside the chain call leaves the  *)
(* memory as get_qa_chain left it; the chain saves the turn at its end     *)
chain_memory(mem, question, answer, fault) ==
    CASE fault = "llm_init" -> mem
      [] fault = "none" -> save_context(get_memory(mem), question, answer)
      [] OTHER -> get_memory(mem)

---------------------------------------------------------------------------
(* Chat input handler, lines 207-259 *)

user_turn(messages, prompt) ==
    Append(messages, [role |-> "user", content |-> prompt])

extract_sources(source_documents) ==
    [i \in DOMAIN source_documents |->
        [page |-> source_documents[i].page_number,
         file |-> source_documents[i].source_file,
         snippet |-> source_documents[i].page_content]]

on_answer(messages, answer, sources) ==
    Append(messages, [role |-> "assistant", content |-> answer, sources |-> sources])

error_msg == "Error generating response"

(* faulty variant: the except branch records no turn *)
on_error_silent(messages) == messages

on_error(messages) ==
    Append(messages, [role |-> "assistant", content |-> error_msg])

(* faulty variant: the clear also drops the index handle and the registry *)
clear_everything(ss) ==
    [ss EXCEPT !.messages = <<>>, !.chat_history = <<>>, !.memory = None,
               !.vectorstore = None, !.pdf_documents = <<>>]

(* Clear Chat History, lines 186-190 *)
clear_chat(ss) ==
    [ss EXCEPT !.messages = <<>>, !.chat_history = <<>>, !.memory = None]

---------------------------------------------------------------------------
(* The state after construction: nothing in st.session_state; the          *)
(* persistent collection is empty or holds a passage of an earlier session *)

OldPassage == [page_number |-> 1, source_file |-> "old.pdf", page_content |-> 1]

Init ==
    /\ \E cfg \in {<<Unset, Unset>>, <<NoKey, Unset>>}
                    \cup {<<k, Unset>> : k \in Keys} \cup {<<Unset, k>> : k \in Keys} :
            environ = cfg[1] /\ secrets = cfg[2]
    /\ text_input = NoKey
    /\ session_state = <<>>
    /\ collection \in {<<>>, <<OldPassage>>}
    /\ tmp_files = 0
    /\ last = [op |-> "init"]

---------------------------------------------------------------------------
(* Script runs *)

(* A run without a key: st.stop() at line 43, before line 52 *)
Stop ==
    /\ ~GatePasses(environ, secrets, text_input)
    /\ last' = [op |-> "stop"]
    /\ UNCHANGED <<environ, secrets, text_input, session_state, collection, tmp_files>>

(* The first run of a session that has a key: lines 52-62 and rendering *)
PageLoad ==
    /\ ~Initialised(session_state)
    /\ GatePasses(environ, secrets, text_input)
    /\ environ' = EnvironAfter(environ, secrets, text_input)
    /\ session_state' = SessionInit(session_state)
    /\ last' = [op |-> "run"]
    /\ text_input' = WidgetAfter(environ, secrets, text_input)
    /\ UNCHANGED <<secrets, collection, tmp_files>>

(* The user types a key into the sidebar input, which is rendered only *)
(* when neither the environment nor the secret store gave one          *)
EnterKey(typed) ==
    /\ EnvOrSecret(environ, secrets) = NoKey
    /\ text_input' = typed
    /\ GatePasses(environ, secrets, typed)
    /\ environ' = EnvironAfter(environ, secrets, typed)
    /\ session_state' = SessionInit(session_state)
    /\ last' = [op |-> "key"]
    /\ UNCHANGED <<secrets, collection, tmp_files>>

(* "Process PDF" on an uploaded file, lines 153-176, when process_pdf *)
(* raises: the except of line 175 shows the error                     *)
UploadRejected(fault) ==
    /\ GatePasses(environ, secrets, text_input)
    /\ Initialised(session_state)
    /\ tmp_files + tmp_left(fault) <= MaxTmpFiles
    /\ environ' = EnvironAfter(environ, secrets, text_input)
    /\ tmp_files' = tmp_files + tmp_left(fault)
    /\ session_state' = SessionInit(session_state)
    /\ last' = [op |-> "upload", fault |-> fault, shown |-> "error"]
    /\ text_input' = WidgetAfter(environ, secrets, text_input)
    /\ UNCHANGED <<secrets, collection>>

(* "Process PDF", lines 153-176, when process_pdf returns its chunks;  *)
(* stored: whether the embedding and the insertion succeed (app.py     *)
(* does not look at the chunk list: an empty one is handed to the      *)
(* store like any other).  The st.rerun() of line 174 starts a run     *)
(* that triggers nothing.                                              *)
Upload(file, pages, stored) ==
    /\ GatePasses(environ, secrets, text_input)
    /\ Initialised(session_state)
    /\ Cardinality(DOMAIN collection) + SumSeq(pages) <= MaxPassages
    /\ LET ss0 == SessionInit(session_state)
           chunks == process_pdf(file, pages)
       IN /\ environ' = EnvironAfter(environ, secrets, text_input)
          /\ tmp_files' = tmp_files + tmp_left("none")
          /\ IF stored
             THEN /\ collection' =
                        IF ss0.vectorstore = None
                        THEN create_vectorstore(collection, chunks)
                        ELSE add_to_vectorstore(collection, chunks)
                  /\ session_state' =
                        [ss0 EXCEPT !.vectorstore = Chroma,
                                    !.pdf_documents = store_metadata(@, file, chunks)]
                  /\ last' = [op |-> "upload", fault |-> "none", shown |-> "success",
                              file |-> file, pages |-> pages]
             ELSE /\ collection' = collection
                  /\ session_state' = ss0
                  /\ last' = [op |-> "upload", fault |-> "store", shown |-> "error",
                              empty |-> (chunks = <<>>)]
    /\ text_input' = WidgetAfter(environ, secrets, text_input)
    /\ UNCHANGED secrets

(* "Clear Chat History", lines 186-190 *)
Clear ==
    /\ GatePasses(environ, secrets, text_input)
    /\ Initialised(session_state)
    /\ LET ss0 == SessionInit(session_state)
       IN /\ environ' = EnvironAfter(environ, secrets, text_input)
          /\ session_state' = clear_chat(ss0)
          /\ last' = [op |-> "clear", turns |-> Len(ss0.messages)]
    /\ text_input' = WidgetAfter(environ, secrets, text_input)
    /\ UNCHANGED <<secrets, collection, tmp_files>>

(* A question in the chat input, lines 193-259 *)
Ask(prompt, rephrased, fault) ==
    /\ GatePasses(environ, secrets, text_input)
    /\ Initialised(session_state)
    /\ session_state.vectorstore # None
    /\ Len(session_state.messages) < 2 * MaxTurns
    /\ LET ss0 == SessionInit(session_state)
           history == asContext(ss0.memory)
           query == standalone_question(history, prompt, rephrased)
           source_documents == as_retriever(collection, query)
           answer == Answer(query)
           asked == user_turn(ss0.messages, prompt)
       IN /\ fault = "condense" => history # <<>>
          /\ (history = <<>> \/ fault \in {"llm_init", "condense"}) => rephrased = prompt
          /\ environ' = EnvironAfter(environ, secrets, text_input)
          /\ session_state' =
                [ss0 EXCEPT
                    !.memory = chain_memory(@, prompt, answer, fault),
                    !.messages = IF fault = "none"
                                 THEN on_answer(asked, answer,
                                                extract_sources(source_documents))
                                 ELSE on_error(asked)]
          /\ last' = [op |-> "ask", fault |-> fault, question |-> prompt,
                      query |-> IF fault \in {"llm_init", "condense"} THEN "" ELSE query,
                      llm_calls |-> llm_calls(history, fault),
                      context |-> history,
                      cleared |-> IF last.op = "clear" THEN last.turns ELSE 0]
    /\ text_input' = WidgetAfter(environ, secrets, text_input)
    /\ UNCHANGED <<secrets, collection, tmp_files>>

Next ==
    \/ Stop
    \/ PageLoad
    \/ \E typed \in Keys : EnterKey(typed)
    \/ \E fault \in ProcessFaults : UploadRejected(fault)
    \/ \E file \in FileNames, pages \in PageLayouts, stored \in BOOLEAN :
            Upload(file, pages, stored)
    \/ Clear
    \/ \E prompt \in Questions, rephrased \in Questions, fault \in AskFaults :
            Ask(prompt, rephrased, fault)

Spec == Init /\ [][Next]_vars

---------------------------------------------------------------------------
(* Properties *)

messages == Messages(session_state)
context == asContext(Memory(session_state))

IsAnswered(run) == run.op = "ask" /\ run.fault = "none"
IsStored(run) == run.op = "upload" /\ run.fault = "none"

(* the citations of the transcript's last turn *)
LastSources(ss) == Messages(ss)[Len(Messages(ss))].sources

(* C1: the clear-conversation action leaves the transcript and the memory  *)
(* empty and the index handle, the collection and the document registry as *)
(* they were; a question answered right after a clear cites what the same  *)
(* collection retrieves for it.                                            *)
ClearKeepsIndex ==
    [][/\ last'.op = "clear" =>
            /\ Messages(session_state') = <<>>
            /\ asContext(Memory(session_state')) = <<>>
            /\ Vectorstore(session_state') = Vectorstore(session_state)
            /\ Registry(session_state') = Registry(session_state)
            /\ collection' = collection
       /\ (last.op = "clear" /\ IsAnswered(last')) =>
            /\ collection' = collection
            /\ Vectorstore(session_state) # None
            /\ LastSources(session_state') =
                    extract_sources(as_retriever(collection, last'.query))
      ]_vars

(* a question answered from a non-empty index right after a clear that *)
(* removed two turns                                                   *)
ClearKeepsIndexWitness ==
    /\ IsAnswered(last)
    /\ last.cleared = 4
    /\ LastSources(session_state) # <<>>
    /\ DOMAIN Registry(session_state) # {}

IndexAdditive ==
    [][/\ \A i \in DOMAIN collection :
            i \in DOMAIN collection' /\ collection'[i] = collection[i]
       /\ Vectorstore(session_state) # None =>
            Vectorstore(session_state') = Vectorstore(session_state)
       /\ (Vectorstore(session_state) = None /\ Vectorstore(session_state') # None) =>
            IsStored(last')
       /\ IsStored(last') =>
            LET chunks == process_pdf(last'.file, last'.pages)
                new == DOMAIN collection' \ DOMAIN collection
            IN /\ Vectorstore(session_state') # None
               /\ Cardinality(new) = Len(chunks)
               /\ \A j \in DOMAIN chunks : \E i \in new : collection'[i] = chunks[j]
      ]_vars

PassagesOf(file) == {i \in DOMAIN collection : collection[i].source_file = file}

(* a file was uploaded again: the collection holds more of its passages *)
(* than the upload just stored                                          *)
IndexAdditiveWitness ==
    /\ IsStored(last)
    /\ SumSeq(last.pages) > 0
    /\ Cardinality(PassagesOf(last.file)) > SumSeq(last.pages)

(* C4: every submitted question extends the transcript by a user turn    *)
(* holding the question and then one assistant turn: the answer with its *)
(* sources, or the error text; the earlier turns are kept; the transcript *)
(* alternates user, assistant.                                           *)
Alternates ==
    \A i \in DOMAIN messages :
        messages[i].role = IF i % 2 = 1 THEN "user" ELSE "assistant"

TranscriptTwoTurns ==
    /\ []Alternates
    /\ [][last'.op = "ask" =>
            LET old == Messages(session_state)
                new == Messages(session_state')
                n == Len(old)
            IN /\ Len(new) = n + 2
               /\ SubSeq(new, 1, n) = old
               /\ new[n + 1] = [role |-> "user", content |-> last'.question]
               /\ new[n + 2].role = "assistant"
               /\ IF last'.fault = "none"
                  THEN /\ new[n + 2].content = Answer(last'.query)
                       /\ new[n + 2].sources =
                            extract_sources(as_retriever(collection, last'.query))
                  ELSE new[n + 2] = [role |-> "assistant", content |-> error_msg]
         ]_vars

(* a failed question after an answered one: four turns, the last the error *)
TranscriptTwoTurnsWitness ==
    /\ last.op = "ask"
    /\ last.fault # "none"
    /\ Len(messages) = 4
    /\ "sources" \in DOMAIN messages[2]
    /\ messages[4].content = error_msg

(* C5: an upload that is an input error (the PDF cannot be loaded, or it  *)
(* yields no chunks) shows an error and leaves the session state and the  *)
(* collection as they were.                                               *)
IsInputError(run) ==
    /\ run.op = "upload"
    /\ \/ run.fault = "load"
       \/ run.fault = "store" /\ run.empty
       \/ run.fault = "none" /\ SumSeq(run.pages) = 0

TempFileReleased == tmp_files = 0

(* C7: a run that finds no API key stops before anything else: it leaves  *)
(* the session state, the collection and the temporary files as they      *)
(* were; session state exists only once a key was found.                  *)
CredentialGate ==
    /\ [](Initialised(session_state) => api_key(environ, secrets, text_input) # NoKey)
    /\ [](~Initialised(session_state) => DOMAIN session_state = {})
    /\ [][api_key(environ, secrets, text_input') = NoKey =>
            /\ last'.op = "stop"
            /\ DOMAIN session_state' = {}
            /\ collection' = collection
            /\ tmp_files' = tmp_files
         ]_vars

(* a run was stopped at the gate *)
CredentialGateWitness ==
    /\ last.op = "stop"
    /\ api_key(environ, secrets, text_input) = NoKey
    /\ DOMAIN session_state = {}

(* C8: a successful upload of file f sets registry[f] to the number of its *)
(* chunks and the number of its pages that gave a chunk, and leaves every  *)
(* other entry; no other run changes the registry.                         *)
RegistryUpsert ==
    [][LET old == Registry(session_state)
           new == Registry(session_state')
       IN IF IsStored(last')
          THEN LET f == last'.file
                   pages == last'.pages
               IN /\ DOMAIN new = DOMAIN old \cup {f}
                  /\ new[f].num_chunks = SumSeq(pages)
                  /\ new[f].num_pages = Cardinality({i \in DOMAIN pages : pages[i] > 0})
                  /\ \A g \in DOMAIN old \ {f} : new[g] = old[g]
          ELSE new = old
      ]_vars

(* two differently named files with different counts, the second just stored *)
RegistryUpsertWitness ==
    /\ IsStored(last)
    /\ DOMAIN Registry(session_state) = FileNames
    /\ \E f \in FileNames :
            /\ f # last.file
            /\ Registry(session_state)[f].num_chunks > Registry(session_state)[f].num_pages
            /\ Registry(session_state)[f] # Registry(session_state)[last.file]

(* C9: an answered question appends its (question, answer) pair at the end *)
(* of the memory, a clear empties it, no other run changes it; the history *)
(* replayed to the model is the memory as it was before the question; the  *)
(* memory is the sequence of the transcript's answered turns, in order.    *)
RECURSIVE AnsweredPairs(_)
AnsweredPairs(msgs) ==
    IF Len(msgs) < 2 THEN <<>>
    ELSE (IF "sources" \in DOMAIN msgs[2]
          THEN <<<<msgs[1].content, msgs[2].content>>>>
          ELSE <<>>)
         \o AnsweredPairs(SubSeq(msgs, 3, Len(msgs)))

MemoryAppendOnly ==
    /\ [](context = AnsweredPairs(messages))
    /\ [][LET old == asContext(Memory(session_state))
              new == asContext(Memory(session_state'))
          IN CASE IsAnswered(last') ->
                    /\ new = Append(old, <<last'.question, Answer(last'.query)>>)
                    /\ last'.context = old
               [] last'.op = "clear" -> new = <<>>
               [] OTHER -> new = old
         ]_vars

(* the second answered question: it was asked with the first pair as its *)
(* history and its own, different pair now follows                       *)
MemoryAppendOnlyWitness ==
    /\ IsAnswered(last)
    /\ Len(context) = 2
    /\ last.context = <<context[1]>>
    /\ context[2][1] = last.question
    /\ context[1] # context[2]

====
